---- MODULE Spec2Model ----
(***************************************************************************)
(* pyright-strict-runner: the pipeline of process_main (comment scan,      *)
(* Pyright on an augmented scratch copy, Any scan, optional loop scan,     *)
(* interpreter) and the scanners it is built from, as they are written in  *)
(* src/pyright_strict_runner/main.py.                                      *)
(*                                                                         *)
(* A source file is a sequence of items.  An item is one comment (its text *)
(* a sequence of characters) or one statement (its tokens and its syntax   *)
(* tree node); two statement items stand for malformed text.  tokenize and *)
(* ast.parse are library code: Tokenize and AstParse give their results on *)
(* this representation.                                                    *)
(***************************************************************************)
EXTENDS Integers, Sequences, FiniteSets, TLC

VARIABLES fs, forbid_iteration, entry, pc, calls, comment_errors,
          pyright_result, any_result, iteration_result, outcome,
          python_returncode, python_target, pyright_target,
          exit_status, stderr_text

vars == <<fs, forbid_iteration, entry, pc, calls, comment_errors,
          pyright_result, any_result, iteration_result, outcome,
          python_returncode, python_target, pyright_target,
          exit_status, stderr_text>>

\* Longest source file of the model, in items.
MaxItems == 2

-----------------------------------------------------------------------------
(* Character strings *)

C_type == <<"t", "y", "p", "e">>
C_pyright == <<"p", "y", "r", "i", "g", "h", "t">>
C_ignore == <<"i", "g", "n", "o", "r", "e">>
C_Any == <<"A", "n", "y">>
C_int == <<"i", "n", "t">>
C_strict == <<"s", "t", "r", "i", "c", "t">>

\* The literals of main.py.
P_type_ignore == <<"#">> \o C_type \o <<":">> \o C_ignore
P_pyright_ignore == <<"#">> \o C_pyright \o <<":">> \o C_ignore
P_type == <<"#">> \o C_type \o <<":">>

\* str.startswith
StartsWith(s, p) == Len(s) >= Len(p) /\ SubSeq(s, 1, Len(p)) = p

\* the `in` operator on str
Contains(s, sub) ==
    \E i \in 1..(Len(s) - Len(sub) + 1) : SubSeq(s, i, i + Len(sub) - 1) = sub

IsSpace(c) == c = " "

\* token_value.replace(' ', '')
ReplaceSpaces(s) == SelectSeq(s, LAMBDA c : ~IsSpace(c))

\* The whitespace characters a comment token can hold: space and tab.
Whitespace == {" ", "\t"}

\* A text with every whitespace character removed.
StripWhitespace(s) == SelectSeq(s, LAMBDA c : c \notin Whitespace)

-----------------------------------------------------------------------------
(* Syntax trees *)

Node(k, name, ch) == [kind |-> k, id |-> name, children |-> ch]
Leaf(k, name) == Node(k, name, <<>>)

\* ast.walk: the nodes of the tree, breadth first.
RECURSIVE Walk(_)
Walk(todo) ==
    IF todo = <<>> THEN <<>>
    ELSE <<Head(todo)>> \o Walk(Tail(todo) \o Head(todo).children)

-----------------------------------------------------------------------------
(* Source items *)

Tok(t, v) == [type |-> t, value |-> v]

Comment(text) == [item |-> "comment", text |-> text,
                  toks |-> <<Tok("COMMENT", text)>>, node |-> Leaf("Pass", "")]
Stmt(toks, node) == [item |-> "stmt", text |-> <<>>, toks |-> toks, node |-> node]
\* tokenizes, does not parse:  x = = 1
BadSyntax == [item |-> "badsyntax", text |-> <<>>,
              toks |-> <<Tok("NAME", <<"x">>), Tok("OP", <<"=">>), Tok("OP", <<"=">>)>>,
              node |-> Leaf("Pass", "")]
\* neither tokenizes nor parses:  x = (1
Unclosed == [item |-> "unclosed", text |-> <<>>,
             toks |-> <<Tok("NAME", <<"x">>), Tok("OP", <<"(">>)>>,
             node |-> Leaf("Pass", "")]

CommentTexts ==
    { <<"#", " ">> \o C_type \o <<":", " ">> \o C_ignore,            \* # type: ignore
      <<"#">> \o C_type \o <<" ", ":">> \o C_ignore \o <<"[", "x", "]">>,  \* #type :ignore[x]
      <<"#", "\t">> \o C_type \o <<":", "\t">> \o C_ignore,          \* #<TAB>type:<TAB>ignore
      <<"#", " ">> \o C_pyright \o <<":", " ">> \o C_ignore,         \* # pyright: ignore
      <<"#">> \o C_pyright \o <<":", "\t">> \o C_ignore,             \* #pyright:<TAB>ignore
      <<"#", " ">> \o C_type \o <<":", " ", "(">> \o C_Any \o <<")">>,   \* # type: (Any)
      <<"#", "\t">> \o C_type \o <<":", " ">> \o C_Any,              \* #<TAB>type: Any
      <<"#", " ">> \o C_type \o <<":", " ">> \o C_int,               \* # type: int
      <<"#", " ">> \o C_Any,                                         \* # Any
      <<"#", " ">> \o C_ignore \o <<" ">> \o C_type \o <<":">>       \* # ignore type:
    }

StmtItems ==
    { \* x = 1
      Stmt(<<Tok("NAME", <<"x">>), Tok("OP", <<"=">>), Tok("NUMBER", <<"1">>)>>,
           Node("Assign", "", <<Leaf("Name", "x"), Leaf("Constant", "")>>)),
      \* s = "#type:ignore"
      Stmt(<<Tok("NAME", <<"s">>), Tok("OP", <<"=">>), Tok("STRING", P_type_ignore)>>,
           Node("Assign", "", <<Leaf("Name", "s"), Leaf("Constant", "")>>)),
      \* x: Any = 1
      Stmt(<<Tok("NAME", <<"x">>), Tok("OP", <<":">>), Tok("NAME", C_Any)>>,
           Node("AnnAssign", "", <<Leaf("Name", "x"), Leaf("Name", "Any"),
                                   Leaf("Constant", "")>>)),
      \* def f(): return Any
      Stmt(<<Tok("NAME", <<"f">>), Tok("NAME", C_Any)>>,
           Node("FunctionDef", "f",
                <<Node("Return", "", <<Leaf("Name", "Any")>>)>>)),
      \* x: typing.Any = 1
      Stmt(<<Tok("NAME", <<"x">>), Tok("OP", <<":">>), Tok("NAME", C_Any)>>,
           Node("AnnAssign", "",
                <<Leaf("Name", "x"),
                  Node("Attribute", "Any", <<Leaf("Name", "typing")>>),
                  Leaf("Constant", "")>>)),
      \* from typing import Any
      Stmt(<<Tok("NAME", <<"f", "r", "o", "m">>), Tok("NAME", C_Any)>>,
           Node("ImportFrom", "typing", <<Leaf("alias", "Any")>>)),
      \* for i in x: pass
      Stmt(<<Tok("NAME", <<"f", "o", "r">>)>>,
           Node("For", "", <<Leaf("Name", "i"), Leaf("Name", "x"), Leaf("Pass", "")>>)),
      \* while x: pass
      Stmt(<<Tok("NAME", <<"w", "h", "i", "l", "e">>)>>,
           Node("While", "", <<Leaf("Name", "x"), Leaf("Pass", "")>>)),
      \* def f():
      \*     if x:
      \*         while x: pass
      Stmt(<<Tok("NAME", <<"d", "e", "f">>), Tok("NAME", <<"w", "h", "i", "l", "e">>)>>,
           Node("FunctionDef", "f",
                <<Node("If", "",
                       <<Leaf("Name", "x"),
                         Node("While", "", <<Leaf("Name", "x"), Leaf("Pass", "")>>)>>)>>)),
      \* y = [i for i in x]
      Stmt(<<Tok("NAME", <<"y">>), Tok("OP", <<"[">>), Tok("NAME", <<"f", "o", "r">>)>>,
           Node("Assign", "",
                <<Leaf("Name", "y"),
                  Node("ListComp", "",
                       <<Leaf("Name", "i"),
                         Node("comprehension", "",
                              <<Leaf("Name", "i"), Leaf("Name", "x")>>)>>)>>)),
      \* async def f():
      \*     async for i in x: pass
      Stmt(<<Tok("NAME", <<"a", "s", "y", "n", "c">>), Tok("NAME", <<"f", "o", "r">>)>>,
           Node("AsyncFunctionDef", "f",
                <<Node("AsyncFor", "",
                       <<Leaf("Name", "i"), Leaf("Name", "x"), Leaf("Pass", "")>>)>>))
    }

Items == StmtItems \cup {Comment(t) : t \in CommentTexts} \cup {BadSyntax, Unclosed}

Sources == UNION {[1..n -> Items] : n \in 0..MaxItems}

-----------------------------------------------------------------------------
(* tokenize.tokenize and ast.parse on a source *)

RECURSIVE Flatten(_)
Flatten(ss) == IF ss = <<>> THEN <<>> ELSE Head(ss) \o Flatten(Tail(ss))

\* The tokens the generator yields, and whether it then raises TokenError
\* (at the end of the text, for a bracket left open).
Tokenize(code) ==
    [tokens |-> <<Tok("ENCODING", <<>>)>>
                \o Flatten([i \in DOMAIN code |-> code[i].toks])
                \o (IF \E i \in DOMAIN code : code[i].item = "unclosed"
                    THEN <<>> ELSE <<Tok("ENDMARKER", <<>>)>>),
     error |-> \E i \in DOMAIN code : code[i].item = "unclosed"]

Parsable(code) == \A i \in DOMAIN code : code[i].item \in {"comment", "stmt"}

\* ast.parse of a parsable source: the Module node over its statements.
AstParse(code) ==
    LET stmts == SelectSeq(code, LAMBDA it : it.item = "stmt")
    IN Node("Module", "", [i \in DOMAIN stmts |-> stmts[i].node])

-----------------------------------------------------------------------------
(* project_types.py *)

\* The members of the enumeration CompileError.
CompileError == {"PyrightIgnoreError", "TypeIgnoreError", "PyrightTypeError"}

\* CompileError.<name>: the member, or AttributeError for a name it lacks.
CompileErrorAttr(name) ==
    IF name \in CompileError
    THEN [kind |-> "return", value |-> name]
    ELSE [kind |-> "raise", value |-> "AttributeError"]

-----------------------------------------------------------------------------
(* main.py: the scanners *)

\* token_to_error of validate_comments.
token_to_error(token) ==
    IF token.type # "COMMENT" THEN [kind |-> "return", value |-> "None"]
    ELSE LET trimmed_text == ReplaceSpaces(token.value)
         IN IF StartsWith(trimmed_text, P_type_ignore)
            THEN CompileErrorAttr("TypeIgnoreError")
            ELSE IF StartsWith(trimmed_text, P_pyright_ignore)
            THEN CompileErrorAttr("PyrightIgnoreError")
            ELSE [kind |-> "return", value |-> "None"]

\* validate_comments: the deduplicated findings, or the exception raised.
validate_comments(code) ==
    LET tk == Tokenize(code)
        errors == [i \in DOMAIN tk.tokens |-> token_to_error(tk.tokens[i])]
    IN IF \E i \in DOMAIN errors : errors[i].kind = "raise"
       THEN [kind |-> "raise", exc |-> "AttributeError", errors |-> {}]
       ELSE IF tk.error
       THEN [kind |-> "raise", exc |-> "TokenError", errors |-> {}]
       ELSE [kind |-> "return", exc |-> "",
             errors |-> {errors[i].value : i \in DOMAIN errors} \ {"None"}]

\* validate_comments_from_path: reads the file and scans its text.
validate_comments_from_path(file) == validate_comments(file.content)

\* token_to_error of validate_any_from_path.
any_token_to_error(token) ==
    IF token.type # "COMMENT" THEN [kind |-> "return", value |-> "None"]
    ELSE LET trimmed_text == ReplaceSpaces(token.value)
         IN IF StartsWith(trimmed_text, P_type) /\ Contains(trimmed_text, C_Any)
            THEN CompileErrorAttr("AnyAnnotationError")
            ELSE [kind |-> "return", value |-> "None"]

\* has_any_annotation looking at the module's statements and their direct
\* children only (ast.iter_child_nodes in place of ast.walk).
has_any_annotation_shallow(code) ==
    LET body == AstParse(code).children
    IN \E i \in DOMAIN body :
          \/ body[i].kind = "Name" /\ body[i].id = "Any"
          \/ \E j \in DOMAIN body[i].children :
                body[i].children[j].kind = "Name" /\ body[i].children[j].id = "Any"

\* has_any_annotation on a parsable text: True, or None (FALSE here) when
\* the walk ends.
has_any_annotation(code) ==
    LET nodes == Walk(<<AstParse(code)>>)
    IN \E i \in DOMAIN nodes : nodes[i].kind = "Name" /\ nodes[i].id = "Any"

\* validate_any_from_path with the parse guarded: a text that does not parse
\* counts as free of Any.
validate_any_from_path_guarded(file) ==
    LET code == file.content
        tk == Tokenize(code)
        errs == [i \in DOMAIN tk.tokens |-> any_token_to_error(tk.tokens[i])]
        comment_errs == {i \in DOMAIN errs : errs[i].value # "None"}
    IN IF \E i \in DOMAIN errs : errs[i].kind = "raise"
       THEN [kind |-> "raise", value |-> "AttributeError"]
       ELSE IF tk.error
       THEN [kind |-> "raise", value |-> "TokenError"]
       ELSE IF comment_errs # {} \/ (Parsable(code) /\ has_any_annotation(code))
       THEN [kind |-> "return", value |-> "None"]
       ELSE [kind |-> "return", value |-> "CompileSuccess"]

\* validate_any_from_path: "CompileSuccess", "None", or the exception raised.
\* The comment scan runs as the tokens are produced, then the parse.
validate_any_from_path(file) ==
    LET code == file.content
        tk == Tokenize(code)
        errs == [i \in DOMAIN tk.tokens |-> any_token_to_error(tk.tokens[i])]
        comment_errs == {i \in DOMAIN errs : errs[i].value # "None"}
    IN IF \E i \in DOMAIN errs : errs[i].kind = "raise"
       THEN [kind |-> "raise", value |-> "AttributeError"]
       ELSE IF tk.error
       THEN [kind |-> "raise", value |-> "TokenError"]
       ELSE IF ~Parsable(code)
       THEN [kind |-> "raise", value |-> "SyntaxError"]
       ELSE IF comment_errs # {} \/ has_any_annotation(code)
       THEN [kind |-> "return", value |-> "None"]
       ELSE [kind |-> "return", value |-> "CompileSuccess"]

\* has_iteration_construct testing ast.For alone.
has_iteration_construct_for_only(code) ==
    LET nodes == Walk(<<AstParse(code)>>)
    IN \E i \in DOMAIN nodes : nodes[i].kind = "For"

\* has_iteration_construct on a parsable text.
has_iteration_construct(code) ==
    LET nodes == Walk(<<AstParse(code)>>)
    IN \E i \in DOMAIN nodes : nodes[i].kind = "For" \/ nodes[i].kind = "While"

\* validate_iteration_from_path.
validate_iteration_from_path(file) ==
    LET code == file.content
    IN IF ~Parsable(code)
       THEN [kind |-> "raise", value |-> "SyntaxError"]
       ELSE IF has_iteration_construct(code)
       THEN [kind |-> "return", value |-> "None"]
       ELSE [kind |-> "return", value |-> "CompileSuccess"]

\* '# pyright: strict\n' + f.read()
StrictDirective == Comment(<<"#", " ">> \o C_pyright \o <<":", " ">> \o C_strict)
augmented_code(file) == <<StrictDirective>> \o file.content

-----------------------------------------------------------------------------
(* main.py: process_main *)

MsgComment == "Error: Pyright-disabling comment in code; kindly remove this"
MsgPyright == "Error: Type error detected by Pyright; kindly check Pyright feedback locally"
\* (the backquotes of the two last messages are written as quotes here)
MsgAny == "Error: Remove all 'Any' annotations"
MsgIteration == "Error: Remove all 'for' and 'while' loops"

\* Exit statuses the two external programs are given in the model.
PyrightReturnCodes == {0, 1}
PythonReturnCodes == {0, 1, 3}

\* How a call ends: kind and argument, and the exit status the Python runtime
\* gives a process that ends this way (a return, 0; sys.exit with a string,
\* the string on stderr and 1; an uncaught exception, a traceback and 1).
Running == [kind |-> "running", arg |-> "", status |-> -1]
Returned == [kind |-> "return", arg |-> "None", status |-> 0]
SysExit(msg) == [kind |-> "SystemExit", arg |-> msg, status |-> 1]
Raised(exc) == [kind |-> "exception", arg |-> exc, status |-> 1]

NoFile == [exists |-> FALSE, content |-> <<>>]
File(content) == [exists |-> TRUE, content |-> content]

Init ==
    /\ \E src \in Sources : fs = [path |-> File(src), scratch |-> NoFile]
    /\ forbid_iteration \in BOOLEAN
    /\ entry = "none"
    /\ pc = "start"
    /\ calls = <<>>
    /\ comment_errors = {}
    /\ pyright_result = "unset"
    /\ any_result = "unset"
    /\ iteration_result = "unset"
    /\ outcome = Running
    /\ python_returncode = -1
    /\ python_target = ""
    /\ pyright_target = ""
    /\ exit_status = -1
    /\ stderr_text = ""

\* Step 1 without the abort: the findings are computed and not acted on.
StepCommentsNoAbort ==
    /\ pc = "start"
    /\ entry' = "process_main"
    /\ calls' = Append(calls, "validate_comments_from_path")
    /\ LET r == validate_comments_from_path(fs.path)
       IN IF r.kind = "raise"
          THEN /\ outcome' = Raised(r.exc)
               /\ pc' = "terminated"
               /\ UNCHANGED comment_errors
          ELSE /\ comment_errors' = r.errors
               /\ outcome' = outcome
               /\ pc' = "pyright"
    /\ UNCHANGED <<fs, forbid_iteration, pyright_result, any_result,
                   iteration_result, python_returncode, python_target,
                   pyright_target, exit_status, stderr_text>>

\* Lines 237-239: step 1.
StepComments ==
    /\ pc = "start"
    /\ entry' = "process_main"
    /\ calls' = Append(calls, "validate_comments_from_path")
    /\ LET r == validate_comments_from_path(fs.path)
       IN IF r.kind = "raise"
          THEN /\ outcome' = Raised(r.exc)
               /\ pc' = "terminated"
               /\ UNCHANGED comment_errors
          ELSE /\ comment_errors' = r.errors
               /\ IF r.errors # {}
                  THEN outcome' = SysExit(MsgComment) /\ pc' = "terminated"
                  ELSE outcome' = outcome /\ pc' = "pyright"
    /\ UNCHANGED <<fs, forbid_iteration, pyright_result, any_result,
                   iteration_result, python_returncode, python_target,
                   pyright_target, exit_status, stderr_text>>

\* The augmented text written over the source file itself (open(path, 'w')),
\* and the checker then given that file.
StepPyrightWriteInPlace ==
    /\ pc = "pyright"
    /\ calls' = Append(calls, "validate_pyright_from_path")
    /\ \E written \in BOOLEAN :
          IF written
          THEN /\ fs' = [fs EXCEPT !.path = File(augmented_code(fs.path)),
                                   !.scratch = File(<<>>)]
               /\ pc' = "pyright_run"
               /\ outcome' = outcome
          ELSE /\ fs' = [fs EXCEPT !.scratch = File(<<>>)]
               /\ pc' = "terminated"
               /\ outcome' = Raised("OSError")
    /\ UNCHANGED <<forbid_iteration, entry, comment_errors, pyright_result,
                   any_result, iteration_result, python_returncode,
                   python_target, pyright_target, exit_status, stderr_text>>

\* Lines 241, 125-134: validate_pyright_from_path up to the checker's launch.
\* The scratch file is created, then opened by name and written; the write
\* can fail, and the exception leaves through process_main.
StepPyrightWrite ==
    /\ pc = "pyright"
    /\ calls' = Append(calls, "validate_pyright_from_path")
    /\ \E written \in BOOLEAN :
          IF written
          THEN /\ fs' = [fs EXCEPT !.scratch = File(augmented_code(fs.path))]
               /\ pc' = "pyright_run"
               /\ outcome' = outcome
          ELSE /\ fs' = [fs EXCEPT !.scratch = File(<<>>)]
               /\ pc' = "terminated"
               /\ outcome' = Raised("OSError")
    /\ UNCHANGED <<forbid_iteration, entry, comment_errors, pyright_result,
                   any_result, iteration_result, python_returncode,
                   python_target, pyright_target, exit_status, stderr_text>>

\* Lines 136-140, 103-106, 242-244: the checker runs on the scratch file and
\* validate_pyright_from_path returns; temp_src_file, its only reference the
\* local variable, is closed (and the file deleted) as the frame goes.  When
\* the launch raises, the traceback keeps the frame, and the file with it.
StepPyrightRun ==
    /\ pc = "pyright_run"
    /\ calls' = Append(calls, "execute_pyright")
    /\ pyright_target' = "scratch"
    /\ \E launched \in BOOLEAN, returncode \in PyrightReturnCodes :
          IF launched
          THEN /\ fs' = [fs EXCEPT !.scratch = NoFile]
               /\ pyright_result' = IF returncode = 0 THEN "CompileSuccess" ELSE "None"
               /\ IF pyright_result' = "None"
                  THEN outcome' = SysExit(MsgPyright) /\ pc' = "terminated"
                  ELSE outcome' = outcome /\ pc' = "any"
          ELSE /\ fs' = fs
               /\ pyright_result' = pyright_result
               /\ outcome' = Raised("FileNotFoundError")
               /\ pc' = "terminated"
    /\ UNCHANGED <<forbid_iteration, entry, comment_errors, any_result,
                   iteration_result, python_returncode, python_target,
                   exit_status, stderr_text>>

\* Lines 246-251: step 3, and the branch on forbid_iteration.
StepAny ==
    /\ pc = "any"
    /\ calls' = Append(calls, "validate_any_from_path")
    /\ LET r == validate_any_from_path(fs.path)
       IN IF r.kind = "raise"
          THEN /\ outcome' = Raised(r.value)
               /\ pc' = "terminated"
               /\ UNCHANGED any_result
          ELSE /\ any_result' = r.value
               /\ IF r.value = "None"
                  THEN outcome' = SysExit(MsgAny) /\ pc' = "terminated"
                  ELSE /\ outcome' = outcome
                       /\ pc' = IF forbid_iteration THEN "iteration" ELSE "python"
    /\ UNCHANGED <<fs, forbid_iteration, entry, comment_errors, pyright_result,
                   iteration_result, python_returncode, python_target,
                   pyright_target, exit_status, stderr_text>>

\* Lines 252-254: step 4.
StepIteration ==
    /\ pc = "iteration"
    /\ calls' = Append(calls, "validate_iteration_from_path")
    /\ LET r == validate_iteration_from_path(fs.path)
       IN IF r.kind = "raise"
          THEN /\ outcome' = Raised(r.value)
               /\ pc' = "terminated"
               /\ UNCHANGED iteration_result
          ELSE /\ iteration_result' = r.value
               /\ IF r.value = "None"
                  THEN outcome' = SysExit(MsgIteration) /\ pc' = "terminated"
                  ELSE outcome' = outcome /\ pc' = "python"
    /\ UNCHANGED <<fs, forbid_iteration, entry, comment_errors, pyright_result,
                   any_result, python_returncode, python_target,
                   pyright_target, exit_status, stderr_text>>

\* execute_python with the child's status passed on:
\* sys.exit(subprocess.run(...).returncode).
execute_python_exit(returncode) ==
    [kind |-> "SystemExit", arg |-> "", status |-> returncode]

\* execute_python, lines 70-81: subprocess.run without check; the
\* CompletedProcess, and the return code in it, is dropped.
execute_python(returncode) == Returned

\* Line 256: step 5, then process_main returns None.
StepPython ==
    /\ pc = "python"
    /\ calls' = Append(calls, "execute_python")
    /\ python_target' = "path"
    /\ \E launched \in BOOLEAN, returncode \in PythonReturnCodes :
          IF launched
          THEN /\ python_returncode' = returncode
               /\ outcome' = execute_python(returncode)
          ELSE /\ python_returncode' = python_returncode
               /\ outcome' = Raised("FileNotFoundError")
    /\ pc' = "terminated"
    /\ UNCHANGED <<fs, forbid_iteration, entry, comment_errors, pyright_result,
                   any_result, iteration_result, pyright_target, exit_status,
                   stderr_text>>

\* Lines 259-260: main gives process_main's end to the runtime, which exits;
\* the objects still alive are finalized, the scratch file among them.
ProcessExit ==
    /\ pc = "terminated"
    /\ pc' = "exited"
    /\ exit_status' = outcome.status
    /\ stderr_text' = IF outcome.kind = "SystemExit" THEN outcome.arg
                      ELSE IF outcome.kind = "exception" THEN "Traceback"
                      ELSE ""
    /\ fs' = [fs EXCEPT !.scratch = NoFile]
    /\ UNCHANGED <<forbid_iteration, entry, calls, comment_errors,
                   pyright_result, any_result, iteration_result, outcome,
                   python_returncode, python_target, pyright_target>>

-----------------------------------------------------------------------------
(* The scanners called on their own, as tests/test_main.py calls them *)

DirectComments ==
    /\ pc = "start"
    /\ entry' = "validate_comments_from_path"
    /\ calls' = Append(calls, "validate_comments_from_path")
    /\ LET r == validate_comments_from_path(fs.path)
       IN /\ comment_errors' = r.errors
          /\ outcome' = IF r.kind = "raise" THEN Raised(r.exc) ELSE Returned
    /\ pc' = "direct_done"
    /\ UNCHANGED <<fs, forbid_iteration, pyright_result, any_result,
                   iteration_result, python_returncode, python_target,
                   pyright_target, exit_status, stderr_text>>

DirectAny ==
    /\ pc = "start"
    /\ entry' = "validate_any_from_path"
    /\ calls' = Append(calls, "validate_any_from_path")
    /\ LET r == validate_any_from_path(fs.path)
       IN /\ any_result' = IF r.kind = "raise" THEN any_result ELSE r.value
          /\ outcome' = IF r.kind = "raise" THEN Raised(r.value) ELSE Returned
    /\ pc' = "direct_done"
    /\ UNCHANGED <<fs, forbid_iteration, comment_errors, pyright_result,
                   iteration_result, python_returncode, python_target,
                   pyright_target, exit_status, stderr_text>>

DirectIteration ==
    /\ pc = "start"
    /\ entry' = "validate_iteration_from_path"
    /\ calls' = Append(calls, "validate_iteration_from_path")
    /\ LET r == validate_iteration_from_path(fs.path)
       IN /\ iteration_result' = IF r.kind = "raise" THEN iteration_result ELSE r.value
          /\ outcome' = IF r.kind = "raise" THEN Raised(r.value) ELSE Returned
    /\ pc' = "direct_done"
    /\ UNCHANGED <<fs, forbid_iteration, comment_errors, pyright_result,
                   any_result, python_returncode, python_target,
                   pyright_target, exit_status, stderr_text>>

Next ==
    \/ StepComments
    \/ StepPyrightWrite
    \/ StepPyrightRun
    \/ StepAny
    \/ StepIteration
    \/ StepPython
    \/ ProcessExit
    \/ DirectComments
    \/ DirectAny
    \/ DirectIteration

Spec == Init /\ [][Next]_vars

-----------------------------------------------------------------------------
(* Vocabulary of the properties *)

Range(q) == {q[i] : i \in DOMAIN q}
IsPrefix(p, q) == Len(p) <= Len(q) /\ SubSeq(q, 1, Len(p)) = p
Called(fn) == fn \in Range(calls)
Ended == pc \in {"terminated", "exited"}

\* The text of the source file.
Content == fs.path.content

\* The texts of the comment tokens of a source.
CommentsOf(code) == {code[i].text : i \in {j \in DOMAIN code : code[j].item = "comment"}}

\* The order of section 4.5.
PipelineOrder(flag) ==
    <<"validate_comments_from_path", "validate_pyright_from_path",
      "execute_pyright", "validate_any_from_path">>
    \o (IF flag THEN <<"validate_iteration_from_path">> ELSE <<>>)
    \o <<"execute_python">>

\* Some Name node of the tree has this identifier (by descent, not by walk).
RECURSIVE NameOccurs(_, _)
NameOccurs(node, name) ==
    \/ node.kind = "Name" /\ node.id = name
    \/ \E i \in DOMAIN node.children : NameOccurs(node.children[i], name)

\* Some node of the tree is of one of these kinds.
RECURSIVE KindOccurs(_, _)
KindOccurs(node, kinds) ==
    \/ node.kind \in kinds
    \/ \E i \in DOMAIN node.children : KindOccurs(node.children[i], kinds)

LoopKinds == {"For", "While"}

\* The kinds section 4.1 asks for: prefixes tested on the comment with all
\* whitespace stripped.
ExpectedCommentKinds(code) ==
    (IF \E t \in CommentsOf(code) : StartsWith(StripWhitespace(t), P_type_ignore)
     THEN {"TypeIgnoreError"} ELSE {})
    \cup
    (IF \E t \in CommentsOf(code) : StartsWith(StripWhitespace(t), P_pyright_ignore)
     THEN {"PyrightIgnoreError"} ELSE {})

\* A type-annotation comment: stripped of whitespace it starts with #type:
IsTypeComment(t) == StartsWith(StripWhitespace(t), P_type)

-----------------------------------------------------------------------------
(* C1 *)

\* C1: in a run of process_main the calls made so far are always an initial
\* part of the fixed order (comment scan, checker, Any scan, loop scan when
\* forbid_iteration, interpreter); a step has started only if every earlier
\* step succeeded; and a run whose enabled checks all succeeded has invoked
\* the interpreter, once.
C1_FixedOrder ==
    entry = "process_main" =>
      /\ IsPrefix(calls, PipelineOrder(forbid_iteration))
      /\ Called("validate_pyright_from_path") =>
            /\ comment_errors = {}
            /\ validate_comments(Content).kind = "return"
      /\ Called("validate_any_from_path") => pyright_result = "CompileSuccess"
      /\ Called("validate_iteration_from_path") =>
            forbid_iteration /\ any_result = "CompileSuccess"
      /\ Called("execute_python") =>
            /\ comment_errors = {}
            /\ pyright_result = "CompileSuccess"
            /\ any_result = "CompileSuccess"
            /\ forbid_iteration => iteration_result = "CompileSuccess"
            /\ Cardinality({i \in DOMAIN calls : calls[i] = "execute_python"}) = 1
      /\ ( /\ Ended
           /\ any_result = "CompileSuccess"
           /\ forbid_iteration => iteration_result = "CompileSuccess" )
         => Called("execute_python")

\* A run with forbid_iteration set that went through all five steps.
C1_Witness ==
    /\ entry = "process_main"
    /\ forbid_iteration
    /\ calls = PipelineOrder(TRUE)
    /\ pc = "exited"

-----------------------------------------------------------------------------
(* C2 *)

\* The comment-based sub-check of the Any scan, by its own test.
AnyCommentFound(code) ==
    \E t \in CommentsOf(code) :
       StartsWith(ReplaceSpaces(t), P_type) /\ Contains(ReplaceSpaces(t), C_Any)

\* C2: a run of process_main in which a validation fails (a suppressing
\* comment found; the checker's verdict a failure; an Any violation found in
\* a parsable file by the comment-based or the syntax-based sub-check; a loop
\* found with forbid_iteration set) has ended through SystemExit with that
\* failure's message and a nonzero status.
C2_FailuresExitWithMessage ==
    (entry = "process_main" /\ Ended) =>
      /\ comment_errors # {} => outcome = SysExit(MsgComment)
      /\ pyright_result = "None" => outcome = SysExit(MsgPyright)
      /\ ( /\ Called("validate_any_from_path")
           /\ Parsable(Content)
           /\ AnyCommentFound(Content) \/ NameOccurs(AstParse(Content), "Any") )
         => outcome = SysExit(MsgAny)
      /\ ( /\ Called("validate_iteration_from_path")
           /\ Parsable(Content)
           /\ KindOccurs(AstParse(Content), LoopKinds) )
         => outcome = SysExit(MsgIteration)
      /\ outcome.kind = "SystemExit" => outcome.status # 0

-----------------------------------------------------------------------------
(* C3 *)

\* C3: when validate_comments has returned, its result is exactly the set of
\* kinds whose prefix some comment begins with after all whitespace is
\* stripped from the comment.
C3_KindsByStrippedPrefix ==
    ( /\ Called("validate_comments_from_path")
      /\ ~Tokenize(Content).error )
    => comment_errors = ExpectedCommentKinds(Content)

-----------------------------------------------------------------------------
(* C4 *)

\* C4: validate_any_from_path, called on a parsable file that holds a comment
\* which stripped of whitespace starts with #type: and contains Any, returns
\* None.
C4_AnyCommentReturnsNone ==
    ( /\ entry = "validate_any_from_path"
      /\ pc = "direct_done"
      /\ Parsable(Content)
      /\ \E t \in CommentsOf(Content) :
            IsTypeComment(t) /\ Contains(StripWhitespace(t), C_Any) )
    => (outcome = Returned /\ any_result = "None")

-----------------------------------------------------------------------------
(* C5 *)

\* C5: validate_any_from_path, on a parsable file with no type-annotation
\* comment, returns; it returns None when some Name node of the tree is
\* named Any and CompileSuccess when none is.
C5_AnyNameDecides ==
    ( /\ Called("validate_any_from_path")
      /\ Parsable(Content)
      /\ \A t \in CommentsOf(Content) : ~IsTypeComment(t) )
    => /\ entry = "validate_any_from_path" => outcome = Returned
       /\ any_result = IF NameOccurs(AstParse(Content), "Any")
                       THEN "None" ELSE "CompileSuccess"

\* The scan has failed a file whose only reference to Any is below the top
\* level of a statement.
C5_Witness ==
    /\ entry = "validate_any_from_path"
    /\ pc = "direct_done"
    /\ Parsable(Content)
    /\ \A t \in CommentsOf(Content) : ~IsTypeComment(t)
    /\ any_result = "None"
    /\ ~has_any_annotation_shallow(Content)

-----------------------------------------------------------------------------
(* C6 *)

\* C6: once step 3 of process_main has succeeded and step 4 is decided: with
\* forbid_iteration the loop scan has run and the run has aborted with the
\* loop message exactly when a For or While node occurs in the tree, going on
\* to the interpreter otherwise; without the flag the scan has not run and
\* the run goes on to the interpreter.  Called on its own,
\* validate_iteration_from_path returns None exactly for the trees with such
\* a node.
C6_LoopScanByFlagAndTree ==
    /\ ( /\ entry = "process_main"
         /\ any_result = "CompileSuccess"
         /\ pc # "iteration" )
       => IF forbid_iteration
          THEN /\ Called("validate_iteration_from_path")
               /\ outcome = SysExit(MsgIteration)
                    <=> KindOccurs(AstParse(Content), LoopKinds)
               /\ iteration_result = "None"
                    <=> KindOccurs(AstParse(Content), LoopKinds)
               /\ (pc = "python" \/ Called("execute_python"))
                    <=> ~KindOccurs(AstParse(Content), LoopKinds)
          ELSE /\ ~Called("validate_iteration_from_path")
               /\ iteration_result = "unset"
               /\ pc = "python" \/ Called("execute_python")
    /\ ( /\ entry = "validate_iteration_from_path"
         /\ pc = "direct_done"
         /\ Parsable(Content) )
       => /\ outcome = Returned
          /\ iteration_result = "None" <=> KindOccurs(AstParse(Content), LoopKinds)

\* A run aborted at step 4 on a file whose loop is a while nested in a
\* function.
C6_Witness ==
    /\ entry = "process_main"
    /\ forbid_iteration
    /\ pc = "exited"
    /\ stderr_text = MsgIteration
    /\ \A i \in DOMAIN Content : Content[i].node.kind \notin LoopKinds

-----------------------------------------------------------------------------
(* C7 *)

InterpreterRan == entry = "process_main" /\ pc = "exited" /\ python_returncode # -1

\* C7 as stated: the process exits with the interpreter's exit status.
C7_StatusPassedOn == InterpreterRan => exit_status = python_returncode

\* C7 amended: once the interpreter has run, process_main returns None and
\* the process exits with status 0 and no message of its own, whatever the
\* interpreter's exit status was.
C7_StatusDropped ==
    InterpreterRan =>
      /\ outcome = Returned
      /\ exit_status = 0
      /\ stderr_text = ""

\* The interpreter exited with a nonzero status and the process with 0.
C7_Witness == InterpreterRan /\ python_returncode = 3 /\ exit_status = 0

-----------------------------------------------------------------------------
(* C8 *)

\* C8: in a run of process_main, once the call of validate_pyright_from_path
\* is over (however it ended), the scratch file does not exist.
C8_ScratchReleased ==
    ( /\ entry = "process_main"
      /\ Called("validate_pyright_from_path")
      /\ pc # "pyright_run" )
    => ~fs.scratch.exists

-----------------------------------------------------------------------------
(* C9 *)

\* C9: no step changes the source file; what the scratch file holds is the
\* source text behind the strict-mode directive (or nothing yet); the checker
\* is given the scratch file and the interpreter the source file.
C9_SourceFileUntouched ==
    [][ /\ fs'.path = fs.path
        /\ fs'.scratch.exists =>
              fs'.scratch.content \in {<<>>, <<StrictDirective>> \o fs.path.content}
        /\ pyright_target' \in {"", "scratch"}
        /\ python_target' \in {"", "path"} ]_vars

\* A run through all steps on a nonempty file.
C9_Witness ==
    /\ entry = "process_main"
    /\ pc = "exited"
    /\ pyright_target = "scratch"
    /\ python_target = "path"
    /\ Content # <<>>

-----------------------------------------------------------------------------
(* C10 *)

\* C10 as stated: a run of process_main on an unparsable file ends as an
\* uncaught parse error, never with a validation message and never having
\* invoked the interpreter.
C10_AlwaysParseError ==
    (entry = "process_main" /\ ~Parsable(Content) /\ Ended) =>
      /\ outcome.kind = "exception"
      /\ outcome.arg \in {"TokenError", "SyntaxError"}
      /\ ~Called("execute_python")

\* C10 amended: a run of process_main on an unparsable file never invokes
\* the interpreter and never ends with the Any or the loop message; it ends
\* with the comment message when step 1 found a suppressing comment, with the
\* checker message when the checker's exit status was nonzero, and as an
\* uncaught error otherwise.
C10_NeverExecuted ==
    (entry = "process_main" /\ ~Parsable(Content)) =>
      /\ ~Called("execute_python")
      /\ pc \notin {"iteration", "python"}
      /\ Ended =>
           /\ outcome.kind \in {"SystemExit", "exception"}
           /\ outcome.kind = "SystemExit" => outcome.arg \in {MsgComment, MsgPyright}
           /\ outcome = SysExit(MsgComment) <=> comment_errors # {}
           /\ outcome = SysExit(MsgPyright) <=> pyright_result = "None"

\* A malformed file without suppressing comment passed the checker and the
\* Any scan raised SyntaxError.
C10_Witness ==
    /\ entry = "process_main"
    /\ ~Parsable(Content)
    /\ pyright_result = "CompileSuccess"
    /\ pc = "exited"
    /\ outcome = Raised("SyntaxError")

====
